---- MODULE Spec2Model ----
(***************************************************************************)
(* Model of breakrs (src/src/main.rs): the GameState physics (tick,        *)
(* update_ball_pos, update_paddle_pos, paddle_collision, reflect,          *)
(* normalize, magnitude, update_ball_speed) and the input processing of    *)
(* game_loop.                                                              *)
(*                                                                         *)
(* Numbers.  Every f32 of the program is a fixed-point integer with        *)
(* One units per 1.0.  One = 3000 makes the sizes and positions of         *)
(* GameState::default (0.032, 0.2, 0.02, -0.8, 0.022, -0.04) and the zone  *)
(* boundary 1.0/3.0 exact; the default ball velocity (0.0039, 0.0024) is   *)
(* rounded to (12, 7) units.  Addition, subtraction, negation and          *)
(* comparison are exact; a product, a quotient and a square root round to  *)
(* the nearest unit, as the f32 operation rounds to the nearest float.     *)
(* The sum of squares under a square root is kept at full precision (f32   *)
(* has the exponent range for it); f32 underflow and overflow to infinity  *)
(* are outside the model.                                                  *)
(***************************************************************************)
EXTENDS Integers, Sequences, FiniteSets, TLC

VARIABLES
    ball_pos_x,      \* GameState.ball_pos_x
    ball_pos_y,      \* GameState.ball_pos_y
    ball_vel_x,      \* GameState.ball_vel_x
    ball_vel_y,      \* GameState.ball_vel_y
    ball_nan,        \* TRUE once a 0/0 has made the ball's floats NaN
    ball_diameter,   \* GameState.ball_diameter
    paddle_pos_x,    \* GameState.paddle_pos_x
    paddle_vel_x,    \* GameState.paddle_vel_x
    keys,            \* the keys the window reported down at the last poll
    pc,              \* "api": calls in any order; "tick"/"input": game_loop
    budget,          \* operations (or frames) left to explore
    last             \* history: the last operation and the state it saw

vars == <<ball_pos_x, ball_pos_y, ball_vel_x, ball_vel_y, ball_nan,
          ball_diameter, paddle_pos_x, paddle_vel_x, keys, pc, budget, last>>

----------------------------------------------------------------------------
(* Bounds of the exploration *)

\* operations explored after an initial state of Spec
MaxSteps == 4

\* frames of game_loop explored by LoopSpec
MaxFrames == 3

----------------------------------------------------------------------------
(* Fixed-point f32 *)

\* the literal 1.0
One == 3000

Abs(a) == IF a < 0 THEN -a ELSE a

\* a / b for b > 0, to the nearest integer
Div(a, b) ==
    IF a >= 0 THEN (a + b \div 2) \div b ELSE -((-a + b \div 2) \div b)

\* f32 product
Mul(a, b) == Div(a * b, One)

\* f32 quotient, NaN/inf excluded by the callers (b > 0)
FDiv(a, b) == Div(a * One, b)

RECURSIVE IsqrtIter(_, _, _)
IsqrtIter(n, lo, hi) ==
    IF lo >= hi THEN lo
    ELSE LET mid == (lo + hi + 1) \div 2
         IN  IF mid * mid <= n THEN IsqrtIter(n, mid, hi)
                               ELSE IsqrtIter(n, lo, mid - 1)

\* r or r + 1, whichever is nearer to the square root of n, for r its floor
Nearest(n, r) == IF n - r * r > r THEN r + 1 ELSE r

\* square root of n >= 0 to the nearest integer
Isqrt(n) == Nearest(n, IsqrtIter(n, 0, 46339))

----------------------------------------------------------------------------
(* Constants of GameState::default *)

DefaultBallVelX == Div(39 * One, 10000)      \* 0.0039
DefaultBallVelY == Div(24 * One, 10000)      \* 0.0024
DefaultBallDiameter == Div(32 * One, 1000)   \* 0.032
DefaultPaddlePosX == -Div(4 * One, 100)      \* -0.04
paddle_pos_y == -Div(8 * One, 10)            \* -0.8
paddle_width == Div(2 * One, 10)             \* 0.2
paddle_height == Div(2 * One, 100)           \* 0.02
paddle_movement_speed == Div(22 * One, 1000) \* 0.022

\* the factors game_loop passes to update_ball_speed
SpeedUp == Div(105 * One, 100)
SlowDown == Div(95 * One, 100)

----------------------------------------------------------------------------
(* Vector helpers, lines 13-33 *)

dot_product(x1, y1, x2, y2) == Mul(x1, x2) + Mul(y1, y2)

magnitude(x, y) == Isqrt(x * x + y * y)

\* line 24: <<x / magnitude, y / magnitude>>; zero is TRUE when the
\* magnitude is 0.0, where f32 yields NaN (0/0) or an infinity.
divide_by(x, y, m) ==
    IF m = 0 THEN [x |-> 0, y |-> 0, zero |-> TRUE]
    ELSE [x |-> FDiv(x, m), y |-> FDiv(y, m), zero |-> FALSE]

normalize(x, y) == divide_by(x, y, magnitude(x, y))

\* lines 30-32, with dot the product of line 29
subtract_reflect(x, y, x_norm, y_norm, dot) ==
    [x |-> x - Mul(Mul(x_norm, 2 * One), dot),
     y |-> y - Mul(Mul(y_norm, 2 * One), dot)]

\* lines 29-32, with n the unit vector of line 28
reflect_about(x, y, x_norm, y_norm, n) ==
    subtract_reflect(x, y, x_norm, y_norm, dot_product(x, y, n.x, n.y))

reflect(x, y, x_norm, y_norm) ==
    reflect_about(x, y, x_norm, y_norm, normalize(x_norm, y_norm))

\* 3.0_f32.sqrt()
sqrt_3 == Isqrt(3 * One * One)

\* const PADDLE_DIV: f32 = 1.0 / 3.0
PADDLE_DIV == FDiv(One, 3 * One)

----------------------------------------------------------------------------
(* GameState::paddle_collision, lines 263-280 *)

\* paddle_collision without the test of the direction of travel
paddle_hit_any_direction(px, py, vx, vy, d, pad) ==
    LET dx == px + vx
        dy == py + vy
    IN  /\ dx + d >= pad
        /\ dx < pad + paddle_width
        /\ dy - d <= paddle_pos_y
        /\ dy >= paddle_pos_y - paddle_height

\* the condition of the if
paddle_hit(px, py, vx, vy, d, pad) ==
    LET dx == px + vx
        dy == py + vy
    IN  /\ vy < 0
        /\ dx + d >= pad
        /\ dx < pad + paddle_width
        /\ dy - d <= paddle_pos_y
        /\ dy >= paddle_pos_y - paddle_height

\* the value of Some(hit_location)
hit_location(px, vx, d, pad) ==
    LET dx == px + vx
        extreme_left == pad - d
        extreme_right == pad + paddle_width
    IN  FDiv(dx - extreme_left, extreme_right - extreme_left)

----------------------------------------------------------------------------
(* GameState::update_ball_pos, lines 282-332 *)

\* the zones with their boundaries given to the zone on the left
zone_direction_inclusive(location) ==
    IF location <= PADDLE_DIV THEN [x |-> -One, y |-> sqrt_3]
    ELSE IF location <= Mul(PADDLE_DIV, 2 * One) THEN [x |-> 0, y |-> One]
    ELSE [x |-> One, y |-> sqrt_3]

\* lines 293-299: the direction of the zone hit
zone_direction(location) ==
    IF location < PADDLE_DIV THEN [x |-> -One, y |-> sqrt_3]
    ELSE IF location < Mul(PADDLE_DIV, 2 * One) THEN [x |-> 0, y |-> One]
    ELSE [x |-> One, y |-> sqrt_3]

\* lines 303-304: the unit vector nv scaled to the original magnitude
rescale(nv, original_magnitude) ==
    [x |-> Mul(nv.x, original_magnitude),
     y |-> Mul(nv.y, original_magnitude),
     zero |-> nv.zero]

\* line 302
normalize_vector(v) == normalize(v.x, v.y)

\* lines 300-304: the velocity after a paddle collision in direction r
paddle_bounce(vx, vy, r) ==
    rescale(normalize_vector(reflect(vx, vy, r.x, r.y)), magnitude(vx, vy))

\* the side walls with strict comparisons
side_walls_strict(vx, dx, max_x) ==
    IF dx < -One \/ dx > max_x THEN -vx ELSE vx

\* lines 308-310
side_walls(vx, dx, max_x) ==
    IF dx <= -One \/ dx >= max_x THEN -vx ELSE vx

\* lines 313-315
top_bottom_walls(vy, dy, min_y) ==
    IF dy <= min_y \/ dy >= One THEN -vy ELSE vy

\* the fold at the right wall taken about 1.0 and not about max_x
resolve_x_about_one(dx, max_x) ==
    IF dx > max_x THEN One - (dx - max_x)
    ELSE IF dx < -One THEN -One + (-One - dx)
    ELSE dx

\* lines 317-323
resolve_x(dx, max_x) ==
    IF dx > max_x THEN max_x - (dx - max_x)
    ELSE IF dx < -One THEN -One + (-One - dx)
    ELSE dx

\* lines 325-331
resolve_y(dy, min_y) ==
    IF dy > One THEN One - (dy - One)
    ELSE IF dy < min_y THEN min_y + (min_y - dy)
    ELSE dy

\* what the paddle step reports: the velocity v it leaves, and whether and
\* where the collision fired
paddle_report(v, hit, location, rx) ==
    [x |-> v.x, y |-> v.y, zero |-> v.zero,
     hit |-> hit, location |-> location, rx |-> rx]

\* lines 291-305 on the ball b = [px, py, vx, vy] with the paddle at pad
paddle_step(b, d, pad) ==
    LET location == hit_location(b.px, b.vx, d, pad)
    IN  IF paddle_hit(b.px, b.py, b.vx, b.vy, d, pad)
        THEN paddle_report(
                 paddle_bounce(b.vx, b.vy, zone_direction(location)),
                 TRUE, location, zone_direction(location).x)
        ELSE paddle_report([x |-> b.vx, y |-> b.vy, zero |-> FALSE],
                           FALSE, 0, 0)

\* lines 283-287 and 307-331, with p the outcome of the paddle step
wall_step(b, d, p) ==
    LET max_x == One - d
        min_y == -One + d
        dx == b.px + b.vx
        dy == b.py + b.vy
    IN  [px |-> resolve_x(dx, max_x),
         py |-> resolve_y(dy, min_y),
         vx |-> side_walls(p.x, dx, max_x),
         vy |-> top_bottom_walls(p.y, dy, min_y),
         nan |-> p.zero,
         hit |-> p.hit,
         location |-> p.location,
         rx |-> p.rx,
         bx |-> p.x,
         by |-> p.y]

\* the whole of update_ball_pos
update_ball_pos(b, d, pad) == wall_step(b, d, paddle_step(b, d, pad))

----------------------------------------------------------------------------
(* GameState::update_paddle_pos, lines 334-337 *)

clamp(v, lo, hi) == IF v < lo THEN lo ELSE IF v > hi THEN hi ELSE v

\* the paddle clamped to the arena and not to 1.0 - paddle_width
update_paddle_pos_full_width(pad, vel) == clamp(pad + vel, -One, One)

update_paddle_pos(pad, vel) ==
    LET max_x == One - paddle_width
    IN  clamp(pad + vel, -One, max_x)

----------------------------------------------------------------------------
(* GameState::update_ball_speed, lines 344-347 *)

update_ball_speed(v, factor) == Mul(v, factor)

----------------------------------------------------------------------------
(* GameState::tick, lines 339-342: the ball first, then the paddle *)

\* tick with the two updates in the other order
tick_paddle_first(b, d, pad, pvel) ==
    [ball |-> update_ball_pos(b, d, update_paddle_pos(pad, pvel)),
     pad |-> update_paddle_pos(pad, pvel)]

tick(b, d, pad, pvel) ==
    [ball |-> update_ball_pos(b, d, pad),
     pad |-> update_paddle_pos(pad, pvel)]

----------------------------------------------------------------------------
(* History *)

\* what an operation other than tick leaves in last
NoTick(op) ==
    [op |-> op, px |-> 0, py |-> 0, vx |-> 0, vy |-> 0, nan |-> FALSE,
     pad |-> 0, pvel |-> 0, hit |-> FALSE, location |-> 0, rx |-> 0,
     bx |-> 0, by |-> 0, zero |-> FALSE]

Ball == [px |-> ball_pos_x, py |-> ball_pos_y,
         vx |-> ball_vel_x, vy |-> ball_vel_y]

\* The state after one call of tick() with outcome t.  With NaN in the
\* ball's floats every comparison of update_ball_pos is false and every
\* sum is NaN: the ball stays NaN.
TickTo(t) ==
    /\ IF ball_nan
       THEN UNCHANGED <<ball_pos_x, ball_pos_y, ball_vel_x, ball_vel_y,
                        ball_nan>>
       ELSE /\ ball_pos_x' = t.ball.px
            /\ ball_pos_y' = t.ball.py
            /\ ball_vel_x' = t.ball.vx
            /\ ball_vel_y' = t.ball.vy
            /\ ball_nan' = t.ball.nan
    /\ paddle_pos_x' = t.pad
    /\ last' = [op |-> "tick", px |-> ball_pos_x, py |-> ball_pos_y,
                vx |-> ball_vel_x, vy |-> ball_vel_y, nan |-> ball_nan,
                pad |-> paddle_pos_x, pvel |-> paddle_vel_x,
                hit |-> ~ball_nan /\ t.ball.hit,
                location |-> IF ball_nan THEN 0 ELSE t.ball.location,
                rx |-> IF ball_nan THEN 0 ELSE t.ball.rx,
                bx |-> IF ball_nan THEN 0 ELSE t.ball.bx,
                by |-> IF ball_nan THEN 0 ELSE t.ball.by,
                zero |-> ~ball_nan /\ t.ball.nan]
    /\ UNCHANGED <<ball_diameter, paddle_vel_x, keys>>

TickBody == TickTo(tick(Ball, ball_diameter, paddle_pos_x, paddle_vel_x))

----------------------------------------------------------------------------
(* Spec: the operations of GameState called in any order *)

\* the factors of update_ball_speed: those of game_loop, and 0.0
Factors == {SpeedUp, SlowDown, 0}

\* the values the input handlers give paddle_vel_x, lines 169, 173, 181
PaddleVels == {-paddle_movement_speed, 0, paddle_movement_speed}

Tick ==
    /\ pc = "api"
    /\ budget > 0
    /\ TickBody
    /\ budget' = budget - 1
    /\ UNCHANGED pc

UpdateBallSpeed ==
    /\ pc = "api"
    /\ budget > 0
    /\ \E factor \in Factors :
          /\ ball_vel_x' = update_ball_speed(ball_vel_x, factor)
          /\ ball_vel_y' = update_ball_speed(ball_vel_y, factor)
    /\ last' = NoTick("update_ball_speed")
    /\ budget' = budget - 1
    /\ UNCHANGED <<ball_pos_x, ball_pos_y, ball_nan, ball_diameter,
                   paddle_pos_x, paddle_vel_x, keys, pc>>

SetPaddleVel ==
    /\ pc = "api"
    /\ budget > 0
    /\ \E v \in PaddleVels : paddle_vel_x' = v
    /\ last' = NoTick("set_paddle_vel")
    /\ budget' = budget - 1
    /\ UNCHANGED <<ball_pos_x, ball_pos_y, ball_vel_x, ball_vel_y, ball_nan,
                   ball_diameter, paddle_pos_x, keys, pc>>

\* Initial states: a GameState with the ball inside the arena and the
\* paddle inside its range.
State(px, py, vx, vy, d, pad, pvel) ==
    [px |-> px, py |-> py, vx |-> vx, vy |-> vy, d |-> d,
     pad |-> pad, pvel |-> pvel]

DefaultState ==
    State(0, 0, DefaultBallVelX, DefaultBallVelY, DefaultBallDiameter,
          DefaultPaddlePosX, 0)

\* the ball at each wall, one tick of the default speed away from it and
\* in the middle, slow, stopped and at the largest speed the fold-back
\* contains (2.0 - diameter)
WallVels ==
    {-(2 * One - DefaultBallDiameter), -DefaultBallVelX, 0, DefaultBallVelX,
     2 * One - DefaultBallDiameter}

WallXs ==
    {-One, -One + DefaultBallVelX, 0,
     One - DefaultBallDiameter - DefaultBallVelX, One - DefaultBallDiameter}

WallYs ==
    {-One + DefaultBallDiameter, -One + DefaultBallDiameter + DefaultBallVelX,
     0, One - DefaultBallVelX, One}

WallStates ==
    {State(px, py, vx, vy, DefaultBallDiameter, DefaultPaddlePosX, 0) :
        px \in WallXs, py \in WallYs, vx \in WallVels, vy \in WallVels}

\* a third of the paddle's reach, extreme_right - extreme_left
Third == (paddle_width + DefaultBallDiameter) \div 3

\* the ball about to reach the paddle: its tentative x, as an offset from
\* extreme_left, just outside and at both ends of the paddle's reach and
\* around the boundaries of the three zones
HitOffsets ==
    {-34, 0, Third - 1, Third, Third + 1, 2 * Third - 1, 2 * Third,
     2 * Third + 1, 3 * Third - 1, 3 * Third}

HitVelXs == {-2400, -100, -1, 0, 1, 100, 2400}

\* <<pos_y, vel_y>>: over the paddle and at rest, falling onto it slowly
\* and fast, and rising
HitYs ==
    {<<paddle_pos_y + 50, 0>>, <<paddle_pos_y + 50, -1>>,
     <<paddle_pos_y + 50, -DefaultBallVelX>>, <<paddle_pos_y + 50, -100>>,
     <<paddle_pos_y + 100, -DefaultBallVelX>>, <<paddle_pos_y + 100, -100>>,
     <<paddle_pos_y + One, -One>>, <<paddle_pos_y + 50, DefaultBallVelX>>}

PaddleStates ==
    {State(DefaultPaddlePosX - DefaultBallDiameter + off - vx, y[1], vx, y[2],
           DefaultBallDiameter, DefaultPaddlePosX, pvel) :
        off \in HitOffsets, vx \in HitVelXs, y \in HitYs, pvel \in PaddleVels}

\* the paddle at and next to the ends of its range
ClampStates ==
    {State(0, 0, DefaultBallVelX, DefaultBallVelY, DefaultBallDiameter,
           pad, pvel) :
        pad \in {-One, -One + 10, One - paddle_width - 10, One - paddle_width},
        pvel \in PaddleVels}

\* pos = (0.9, 0.0), vel = (0.05, 0.0), diameter = 0.1
ExampleState ==
    State(Div(9 * One, 10), 0, Div(5 * One, 100), 0, Div(One, 10),
          DefaultPaddlePosX, 0)

InitStates ==
    {DefaultState, ExampleState} \cup WallStates \cup PaddleStates
        \cup ClampStates

InitFrom(s) ==
    /\ ball_pos_x = s.px
    /\ ball_pos_y = s.py
    /\ ball_vel_x = s.vx
    /\ ball_vel_y = s.vy
    /\ ball_nan = FALSE
    /\ ball_diameter = s.d
    /\ paddle_pos_x = s.pad
    /\ paddle_vel_x = s.pvel
    /\ keys = {}
    /\ last = NoTick("new")

Init ==
    /\ \E s \in InitStates : InitFrom(s)
    /\ pc = "api"
    /\ budget = MaxSteps

Next == Tick \/ UpdateBallSpeed \/ SetPaddleVel

Spec == Init /\ [][Next]_vars

----------------------------------------------------------------------------
(* LoopSpec: game_loop, lines 146-187, from GameState::default *)

\* the keys game_loop reads
Keys == {"A", "D", "Equal", "Minus", "LeftShift", "RightShift"}

\* window.get_keys() lists the keys that are down in the order of the
\* window library's Key enum
KeyOrder == <<"A", "D", "Equal", "Minus", "LeftShift", "RightShift">>

\* lines 157-177: one arm of the match on a key that is down; g is
\* [vx, vy, pvel], down the set of keys that are down
key_down(key, g, down) ==
    IF key \in {"LeftShift", "RightShift"}
    THEN IF "Equal" \in down
         THEN [g EXCEPT !.vx = update_ball_speed(g.vx, SpeedUp),
                        !.vy = update_ball_speed(g.vy, SpeedUp)]
         ELSE g
    ELSE IF key = "Minus"
    THEN [g EXCEPT !.vx = update_ball_speed(g.vx, SlowDown),
                   !.vy = update_ball_speed(g.vy, SlowDown)]
    ELSE IF key = "A" THEN [g EXCEPT !.pvel = -paddle_movement_speed]
    ELSE IF key = "D" THEN [g EXCEPT !.pvel = paddle_movement_speed]
    ELSE g

\* lines 179-184: the keys released since the last poll
keys_released(g, released) ==
    IF "A" \in released \/ "D" \in released
    THEN [g EXCEPT !.pvel = 0] ELSE g

RECURSIVE for_each_key(_, _, _)
for_each_key(i, g, down) ==
    IF i > Len(KeyOrder) THEN g
    ELSE for_each_key(i + 1,
                      IF KeyOrder[i] \in down
                      THEN key_down(KeyOrder[i], g, down) ELSE g,
                      down)

\* lines 157-184: the input processing of one frame; was is the set of
\* keys down at the previous poll, down the set down now
process_input(g, was, down) ==
    keys_released(for_each_key(1, g, down), was \ down)

\* lines 148-149 of one iteration
FrameTick ==
    /\ pc = "tick"
    /\ budget > 0
    /\ TickBody
    /\ pc' = "input"
    /\ UNCHANGED budget

\* lines 151-184 of one iteration: the window polls the keyboard, then
\* the keys down and the keys released are processed
ProcessInput ==
    /\ pc = "input"
    /\ \E down \in SUBSET Keys :
          LET g == process_input([vx |-> ball_vel_x, vy |-> ball_vel_y,
                                  pvel |-> paddle_vel_x], keys, down)
          IN  /\ ball_vel_x' = g.vx
              /\ ball_vel_y' = g.vy
              /\ paddle_vel_x' = g.pvel
              /\ keys' = down
    /\ last' = NoTick("input")
    /\ pc' = "tick"
    /\ budget' = budget - 1
    /\ UNCHANGED <<ball_pos_x, ball_pos_y, ball_nan, ball_diameter,
                   paddle_pos_x>>

LoopInit ==
    /\ InitFrom(DefaultState)
    /\ pc = "tick"
    /\ budget = MaxFrames

LoopNext == FrameTick \/ ProcessInput

LoopSpec == LoopInit /\ [][LoopNext]_vars

----------------------------------------------------------------------------
(* Properties *)

\* the last operation was a tick() on a ball with no NaN
Ticked == last.op = "tick" /\ ~last.nan

\* the tentative position of the last tick
LastDx == last.px + last.vx
LastDy == last.py + last.vy

InBounds(px, py, d) ==
    /\ -One <= px /\ px <= One - d
    /\ -One + d <= py /\ py <= One

\* C1: the ball is inside the arena in every reachable state, whatever
\* ticks and speed changes came before.
C1_Containment ==
    ~ball_nan /\ InBounds(ball_pos_x, ball_pos_y, ball_diameter)

\* C2: paddle_pos_x is in [-1, 1 - paddle_width] in every reachable state.
C2_PaddleClamp ==
    -One <= paddle_pos_x /\ paddle_pos_x <= One - paddle_width

\* a tick whose paddle motion was cut at the right end of the range
C2_ClampActed ==
    /\ last.op = "tick"
    /\ last.pad + last.pvel > One - paddle_width
    /\ paddle_pos_x = One - paddle_width

\* x - 2 (v . n) n for one component, with dot = v . n
mirror(x, n, dot) == x - Mul(Mul(2 * One, dot), n)

mirror_about(x, y, n) ==
    normalize(mirror(x, n.x, dot_product(x, y, n.x, n.y)),
              mirror(y, n.y, dot_product(x, y, n.x, n.y)))

\* the reflection v - 2 (v . n) n about the unit vector n of the direction
\* (x_norm, y_norm), rescaled to the magnitude of v
standard_reflection(x, y, x_norm, y_norm) ==
    rescale(mirror_about(x, y, normalize(x_norm, y_norm)), magnitude(x, y))

\* the rounding allowed between two computations of one velocity: three
\* units and 2% of its magnitude
Close(a, b, x, y) == Abs(a - b) <= 3 + magnitude(x, y) \div 50

LastDirY == IF last.rx = 0 THEN One ELSE sqrt_3

\* C3: after a tick whose paddle collision fired, the velocity the paddle
\* step produced is the standard reflection of the incoming velocity about
\* the unit vector of the zone's direction, in all three zones.
C3_StandardReflection ==
    (Ticked /\ last.hit) =>
        LET r == standard_reflection(last.vx, last.vy, last.rx, LastDirY)
        IN  /\ Close(last.bx, r.x, last.vx, last.vy)
            /\ Close(last.by, r.y, last.vx, last.vy)

\* C4 as claimed: the collision test of a tick sees the paddle where that
\* tick's paddle motion has put it.
C4_PaddleMovesFirst ==
    Ticked =>
        (last.hit <=> paddle_hit(last.px, last.py, last.vx, last.vy,
                                 ball_diameter, paddle_pos_x))

\* C4 amended: the collision test and the hit location of a tick see the
\* paddle where it was before the tick; the paddle is advanced and clamped
\* after the ball has been updated.
C4_BallMovesFirst ==
    Ticked =>
        /\ last.hit <=> paddle_hit(last.px, last.py, last.vx, last.vy,
                                   ball_diameter, last.pad)
        /\ last.hit =>
              last.location = hit_location(last.px, last.vx, ball_diameter,
                                           last.pad)
        /\ paddle_pos_x =
              IF last.pad + last.pvel < -One THEN -One
              ELSE IF last.pad + last.pvel > One - paddle_width
                   THEN One - paddle_width
              ELSE last.pad + last.pvel

\* a tick that moved the paddle away from under the ball: the collision
\* fired against the old paddle position and would not against the new
C4_HitBeforePaddleMoved ==
    /\ Ticked
    /\ last.hit
    /\ paddle_pos_x # last.pad
    /\ LastDx >= paddle_pos_x + paddle_width

\* C5: in a tick with no paddle collision each velocity component is
\* negated iff the tentative position reaches a wall of its axis, and is
\* otherwise unchanged.
C5_WallBounce ==
    (Ticked /\ ~last.hit) =>
        /\ ball_vel_x =
              IF LastDx <= -One \/ LastDx >= One - ball_diameter
              THEN -last.vx ELSE last.vx
        /\ ball_vel_y =
              IF LastDy <= -One + ball_diameter \/ LastDy >= One
              THEN -last.vy ELSE last.vy
        /\ Abs(ball_vel_x) = Abs(last.vx)
        /\ Abs(ball_vel_y) = Abs(last.vy)

\* a tick that reached exactly the right wall and no other: the sign of
\* vel_x alone has flipped
C5_OneAxisBounce ==
    /\ Ticked
    /\ ~last.hit
    /\ LastDx = One - ball_diameter
    /\ LastDy > -One + ball_diameter /\ LastDy < One
    /\ last.vx > 0 /\ last.vy # 0
    /\ ball_vel_x = -last.vx
    /\ ball_vel_y = last.vy

\* C6: the direction of a paddle collision is decided by hit_location
\* alone: below 1/3 left, from 1/3 and below 2/3 middle, from 2/3 right.
C6_ZoneByHitLocation ==
    (Ticked /\ last.hit) =>
        last.rx = IF 3 * last.location < One THEN -One
                  ELSE IF 3 * last.location < 2 * One THEN 0
                  ELSE One

\* a collision at exactly one third of the paddle's reach, resolved to the
\* middle zone
C6_TieAtOneThird ==
    /\ Ticked
    /\ last.hit
    /\ 3 * (LastDx - (last.pad - ball_diameter))
          = paddle_width + ball_diameter
    /\ 3 * last.location = One
    /\ last.rx = 0

\* the ball's box over the paddle's box: the tests of paddle_collision
\* other than the direction of travel
Overlaps(px, py, d, pad) ==
    /\ px + d >= pad
    /\ px < pad + paddle_width
    /\ py - d <= paddle_pos_y
    /\ py >= paddle_pos_y - paddle_height

\* C7: no tick normalizes a vector of magnitude zero, and a tick of a ball
\* at rest skips the paddle reflection and leaves the ball where it was,
\* still at rest.
C7_ZeroSpeedGuard ==
    /\ ~last.zero
    /\ ~ball_nan
    /\ (Ticked /\ last.vx = 0 /\ last.vy = 0) =>
          /\ ~last.hit
          /\ ball_vel_x = 0 /\ ball_vel_y = 0
          /\ ball_pos_x = last.px /\ ball_pos_y = last.py

\* The same with the ball inside the arena before the tick: a ball at
\* rest outside the arena (C1) is moved by the fold-back.
C7_GuardInsideArena ==
    /\ ~last.zero
    /\ ~ball_nan
    /\ (Ticked /\ last.vx = 0 /\ last.vy = 0) =>
          /\ ~last.hit
          /\ ball_vel_x = 0 /\ ball_vel_y = 0
          /\ InBounds(last.px, last.py, ball_diameter) =>
                (ball_pos_x = last.px /\ ball_pos_y = last.py)

\* a tick of a ball at rest whose box overlaps the paddle's box
C7_RestingOnPaddle ==
    /\ Ticked
    /\ last.vx = 0 /\ last.vy = 0
    /\ Overlaps(last.px, last.py, ball_diameter, last.pad)

\* C8: after the input processing of a frame, a direction key that is
\* held down means paddle_vel_x is not 0.
C8_HeldKeyMoves ==
    (pc = "tick" /\ last.op = "input") =>
        (("A" \in keys \/ "D" \in keys) => paddle_vel_x # 0)

\* C9: after a tick whose paddle collision fired and whose tentative y
\* reached neither the top nor the bottom wall, the ball moves upward.
C9_LeavesUpward ==
    (Ticked /\ last.hit
        /\ ~(LastDy <= -One + ball_diameter \/ LastDy >= One)) =>
        ball_vel_y > 0

\* C10: a tick of a ball inside the arena with both speed components at
\* most 2 - diameter leaves it inside the arena, at the tentative position
\* folded back at the wall it passed; the ball of the example ends at
\* pos_x = 0.85 with vel_x = -0.05.
C10_FoldBackContains ==
    (/\ Ticked
     /\ InBounds(last.px, last.py, ball_diameter)
     /\ Abs(last.vx) <= 2 * One - ball_diameter
     /\ Abs(last.vy) <= 2 * One - ball_diameter) =>
        /\ InBounds(ball_pos_x, ball_pos_y, ball_diameter)
        /\ ball_pos_x =
              IF LastDx > One - ball_diameter
              THEN (One - ball_diameter) - (LastDx - (One - ball_diameter))
              ELSE IF LastDx < -One THEN -One + (-One - LastDx)
              ELSE LastDx
        /\ ball_pos_y =
              IF LastDy > One THEN One - (LastDy - One)
              ELSE IF LastDy < -One + ball_diameter
                   THEN (-One + ball_diameter)
                           + ((-One + ball_diameter) - LastDy)
              ELSE LastDy
        /\ (/\ ball_diameter = Div(One, 10)
            /\ last.px = Div(9 * One, 10) /\ last.py = 0
            /\ last.vx = Div(5 * One, 100) /\ last.vy = 0) =>
              /\ ball_pos_x = Div(85 * One, 100)
              /\ ball_vel_x = -Div(5 * One, 100)

\* the tick of the example: pos = (0.9, 0.0), vel = (0.05, 0.0),
\* diameter = 0.1
C10_Example ==
    /\ Ticked
    /\ ball_diameter = Div(One, 10)
    /\ last.px = Div(9 * One, 10) /\ last.py = 0
    /\ last.vx = Div(5 * One, 100) /\ last.vy = 0
    /\ ball_pos_x = Div(85 * One, 100)
    /\ ball_vel_x = -Div(5 * One, 100)

====
